---- MODULE Spec2Model ----
(***************************************************************************)
(* A model of the chat-demo application (React Native / Expo):             *)
(*   - components/Chat.js          the Chat screen: live subscription,     *)
(*                                 offline cache, connectivity-gated send  *)
(*   - components/CustomActions.js the attachment sheet: tiered upload,    *)
(*                                 location capture                        *)
(*   - components/Start.js         the Start screen: name validation,      *)
(*                                 sign-in and navigation                  *)
(* Every await of the code is a step of its own: the environment (storage, *)
(* network, pickers) chooses the outcome of the awaited call.              *)
(***************************************************************************)
EXTENDS Integers, Sequences, FiniteSets, TLC

VARIABLES
  isConnected,   \* the isConnected prop of the screen
  db,            \* the db prop of Chat (TRUE: a Firestore instance, FALSE: undefined)
  phase,         \* Chat: "created" (rendered, effects not run), "mounted", "unmounted"
  messages,      \* Chat: the messages state (useState)
  subscribed,    \* Chat: the effect's unsubscribe refers to a live onSnapshot listener
  sent,          \* Firestore: the messages addDoc has submitted, in order
  emitCount,     \* Firestore: number of snapshots delivered to the listener
  lastEmission,  \* Firestore: the documents of the last snapshot delivered, in order
  lastFetched,   \* Chat: the list the callback decoded from the last snapshot
  cache,         \* AsyncStorage: the value stored under MESSAGES_KEY
  cachedFrom,    \* the in-memory list the stored value was serialized from (<<>>: none)
  writes,        \* AsyncStorage: the setItem calls in flight, in the order issued
  writeErrors,   \* a cache write of the callback has failed (serialization or setItem)
  overlapped,    \* history: a snapshot arrived while an earlier cache write was in flight
  loads,         \* Chat: loadFromCache calls awaiting AsyncStorage.getItem
  alert,         \* the title of the Alert currently shown ("none" when there is none)
  visible,       \* CustomActions: the visible state of the attachment sheet
  handler,       \* CustomActions: the handler that runs or ran last
  pc,            \* CustomActions: the await the handler is at ("idle", "done" when none runs)
  calls,         \* CustomActions: the external calls of this invocation, in order
  position,      \* CustomActions: shareLocation's position variable
  uploadResult,  \* CustomActions: how uploadImageAsync settled in this invocation
  onSendLog,     \* CustomActions: the messages this invocation passed to onSend
  outcome,       \* CustomActions: how the last invocation ended
  name,          \* Start: the name state (the text input)
  selectedColor, \* Start: the selectedColor state
  signIn,        \* Start: the signInUser calls awaiting signInAnonymouslyRN
  screen,        \* navigation: the screen on top of the stack
  route,         \* navigation: the params the Chat route was opened with, or None
  reachable      \* the host: the network is reachable

chatOnlyVars == <<db, phase, messages, subscribed, sent, emitCount,
                  lastEmission, lastFetched, cache, cachedFrom, writes, writeErrors,
                  overlapped, loads>>

actVars == <<visible, handler, pc, calls, position, uploadResult, onSendLog, outcome>>

startVars == <<name, selectedColor, signIn, screen, route>>

vars == <<isConnected, alert, chatOnlyVars, actVars, startVars, reachable>>

-----------------------------------------------------------------------------
(* Bounds of the model *)

\* messages onSend submits at most
MaxSent == 1
\* snapshots the listener receives at most
MaxEmissions == 2
\* setItem calls in flight at most
MaxPending == 2
\* loadFromCache calls in flight at most
MaxLoads == 1
\* signInUser calls in flight at most
MaxSignIns == 1

-----------------------------------------------------------------------------
(* Values *)

\* An optional value: absent (undefined / null) or present.
None == <<>>
Some(v) == <<v>>

\* The name route parameter of the Chat screen.
RouteName == "Ann"

\* createdAt as stored in a remote document.
RawTimestamp(s, n) == [kind |-> "timestamp", seconds |-> s, nanoseconds |-> n]
RawString(s) == [kind |-> "string", text |-> s]
RawNull == [kind |-> "null"]

\* A JavaScript Date: a time value in milliseconds, or Invalid Date.
DateOf(t) == [valid |-> TRUE, ms |-> t]
InvalidDate == [valid |-> FALSE, ms |-> 0]

\* What `new Date()` can return while the model runs.
Nows == {5001}

UserAnn == [_id |-> "u1", name |-> "Ann"]
UserBob == [_id |-> "u2", name |-> "Bob"]

\* The data of the documents other clients put in the collection: a well-formed
\* one, and one that lacks text and user and whose createdAt is no date.
DataText == [text |-> Some("hi"), createdAt |-> RawTimestamp(62, 1500000),
             user |-> Some(UserBob), system |-> FALSE, image |-> None, location |-> None]
DataBadDate == [text |-> None, createdAt |-> RawString("not a date"),
             user |-> None, system |-> TRUE, image |-> None, location |-> None]

\* The documents of other clients that the collection may hold.
ForeignDocs == {[id |-> 1, data |-> DataText], [id |-> 2, data |-> DataBadDate]}

-----------------------------------------------------------------------------
(* Date conversions *)

\* Timestamp.toDate(): the Date of the same instant, cut to the millisecond.
ToDate(raw) == DateOf(raw.seconds * 1000 + raw.nanoseconds \div 1000000)

\* Date.prototype.toISOString(): the calendar fields of the time value
\* (day number since the epoch, hour, minute, second, millisecond).
\* RangeError on an Invalid Date: callers test IsoThrows first.
ToISOStringDropsMillis(d) ==
  [day |-> d.ms \div 86400000, hh |-> (d.ms % 86400000) \div 3600000,
   mm |-> (d.ms % 3600000) \div 60000, ss |-> (d.ms % 60000) \div 1000, mmm |-> 0]

ToISOString(d) ==
  [day |-> d.ms \div 86400000, hh |-> (d.ms % 86400000) \div 3600000,
   mm |-> (d.ms % 3600000) \div 60000, ss |-> (d.ms % 60000) \div 1000,
   mmm |-> d.ms % 1000]

IsoThrows(d) == ~d.valid

\* new Date(isoString): the time value of the calendar fields.
ParseISO(s) ==
  DateOf(s.day * 86400000 + s.hh * 3600000 + s.mm * 60000 + s.ss * 1000 + s.mmm)

\* new Date(x) for a string read from a remote document: text that is no date
\* gives an Invalid Date.
NewDateOfRaw(raw) == IF raw.text = "not a date" THEN InvalidDate ELSE DateOf(0)

-----------------------------------------------------------------------------
(* The remote query: orderBy('createdAt', 'desc') *)

\* Firestore's order of value types: null < timestamp < string.
TypeRank(raw) ==
  CASE raw.kind = "null" -> 0
    [] raw.kind = "timestamp" -> 1
    [] raw.kind = "string" -> 2

\* d comes before e in the descending order (ties broken by document id).
Before(d, e) ==
  LET a == d.data.createdAt
      b == e.data.createdAt
  IN  \/ TypeRank(a) > TypeRank(b)
      \/ /\ TypeRank(a) = TypeRank(b)
         /\ a.kind = "timestamp"
         /\ \/ a.seconds > b.seconds
            \/ a.seconds = b.seconds /\ a.nanoseconds > b.nanoseconds
      \/ /\ TypeRank(a) = TypeRank(b)
         /\ a.kind = "timestamp" => (a.seconds = b.seconds /\ a.nanoseconds = b.nanoseconds)
         /\ d.id > e.id

RECURSIVE SortDesc(_)
SortDesc(S) ==
  IF S = {} THEN <<>>
  ELSE LET first == CHOOSE d \in S : \A e \in S \ {d} : Before(d, e)
       IN  <<first>> \o SortDesc(S \ {first})

\* The snapshot the listener gets: the documents of the collection, newest first.
QuerySnapshot(docs) == SortDesc(docs)

-----------------------------------------------------------------------------
(* Chat.js: decoding, serializing, restoring *)

\* The fallback user of a document without one.
DefaultUser == [_id |-> 1, name |-> RouteName,
                avatar |-> "https://placeimg.com/140/140/any"]

\* One document of a snapshot as a GiftedChat message; now is `new Date()`.
DecodeDoc(doc, now) ==
  LET raw == doc.data.createdAt
      createdAt == IF raw.kind = "timestamp" THEN ToDate(raw)
                   ELSE IF raw.kind = "null" THEN DateOf(now)
                   ELSE NewDateOfRaw(raw)
  IN  [_id |-> doc.id,
       text |-> IF doc.data.text = None THEN "" ELSE doc.data.text[1],
       createdAt |-> createdAt,
       user |-> IF doc.data.user = None THEN DefaultUser ELSE doc.data.user[1],
       system |-> IF doc.data.system THEN Some(TRUE) ELSE None]

Fetched(docs, now) == [i \in 1..Len(docs) |-> DecodeDoc(docs[i], now)]

\* The serializable form of a message: createdAt as an ISO-8601 string.
ToCacheEntry(m) ==
  [_id |-> m._id, text |-> m.text, createdAt |-> Some(ToISOString(m.createdAt)),
   user |-> m.user, system |-> m.system]

ToCache(list) == [i \in 1..Len(list) |-> ToCacheEntry(list[i])]

\* toISOString throws for a message whose createdAt is an Invalid Date.
SerializeThrows(list) == \E i \in 1..Len(list) : IsoThrows(list[i].createdAt)

\* The stored values: nothing, text that is no JSON, JSON that is no array, an array.
Absent == [kind |-> "absent"]
Unparsable == [kind |-> "unparsable"]
NonArray == [kind |-> "nonarray"]
ArrayOf(entries) == [kind |-> "array", entries |-> entries]

\* JSON.stringify of the serializable list.
Stringify(entries) == ArrayOf(entries)

\* An array element that is null (m.createdAt throws a TypeError).
NullEntry == [null |-> TRUE]
IsNullEntry(e) == DOMAIN e = {"null"}

\* One parsed element with createdAt rebuilt as a Date.
RestoreEntry(e) ==
  [_id |-> e._id, text |-> e.text,
   createdAt |-> IF e.createdAt = None THEN InvalidDate ELSE ParseISO(e.createdAt[1]),
   user |-> e.user, system |-> e.system]

Restored(entries) == [i \in 1..Len(entries) |-> RestoreEntry(entries[i])]

\* The snapshot of the specification's scenario, left by an earlier session.
StoredEntry == [_id |-> 1, text |-> "hi",
                createdAt |-> Some([day |-> 0, hh |-> 0, mm |-> 0, ss |-> 3, mmm |-> 7]),
                user |-> UserAnn, system |-> None]

InitialCaches == {Absent, Unparsable, NonArray, ArrayOf(<<NullEntry>>),
                  ArrayOf(<<StoredEntry>>)}
-----------------------------------------------------------------------------
(* Chat.js: the screen *)

\* The messages GiftedChat and the attachment sheet hand to onSend.
SendText == [text |-> "hello", createdAt |-> DateOf(7001), user |-> UserAnn,
             image |-> None, location |-> None]
SendImage == [text |-> "", createdAt |-> DateOf(8000), user |-> UserAnn,
              image |-> Some("https://storage/images/u1/1.jpg"), location |-> None]

\* onSend's argument: an array of messages (it may be empty).
SendInputs == {<<>>, <<SendText>>, <<SendImage>>}

\* addDoc stores the object's fields; Firestore keeps a Date as a Timestamp.
DataOfMessage(m) ==
  [text |-> Some(m.text),
   createdAt |-> RawTimestamp(m.createdAt.ms \div 1000, (m.createdAt.ms % 1000) * 1000000),
   user |-> Some(m.user), system |-> FALSE, image |-> m.image, location |-> m.location]

\* The documents addDoc has created so far (their ids follow the foreign ones).
SentDocs == {[id |-> 10 + k, data |-> DataOfMessage(sent[k])] : k \in 1..Len(sent)}

\* The collection holds the documents sent (the local view has them as soon as
\* addDoc is called) and those of the foreign ones that exist at the time.
Collection(others) == others \cup SentDocs

RemoveAt(s, i) == [j \in 1..(Len(s) - 1) |-> IF j < i THEN s[j] ELSE s[j + 1]]

\* subscribeOnline: nothing without db, else a live listener.
SubscribeOnline == db

RunEffectAlwaysSubscribes(connected) ==
  /\ subscribed' = SubscribeOnline
  /\ loads' = IF connected THEN loads ELSE loads + 1

\* The body of the "load messages" effect: subscribe when online, else start a
\* cache load. The load goes on after the effect returned.
RunEffect(connected) ==
  IF connected
  THEN /\ subscribed' = SubscribeOnline
       /\ loads' = loads
  ELSE /\ subscribed' = FALSE
       /\ loads' = loads + 1

\* First run of the effect, after the first render.
Mount ==
  /\ phase = "created"
  /\ ~isConnected => loads < MaxLoads
  /\ phase' = "mounted"
  /\ RunEffect(isConnected)
  /\ UNCHANGED <<isConnected, db, messages, sent, emitCount, lastEmission,
                 lastFetched, cache, cachedFrom, writes, writeErrors, alert>>
  /\ UNCHANGED <<overlapped, actVars, startVars, reachable>>

\* The isConnected prop changes: the effect's cleanup runs (unsubscribe), then the
\* effect runs again with the new value.
SetConnected(b) ==
  /\ phase = "mounted"
  /\ b # isConnected
  /\ ~b => loads < MaxLoads
  /\ isConnected' = b
  /\ RunEffect(b)
  /\ UNCHANGED <<db, phase, messages, sent, emitCount, lastEmission,
                 lastFetched, cache, cachedFrom, writes, writeErrors, alert>>
  /\ UNCHANGED <<overlapped, actVars, startVars, reachable>>

\* The screen goes away and the cleanup leaves the listener attached.
UnmountKeepsListener ==
  /\ phase = "mounted"
  /\ phase' = "unmounted"
  /\ subscribed' = subscribed
  /\ UNCHANGED <<isConnected, db, messages, sent, emitCount, lastEmission,
                 lastFetched, cache, cachedFrom, writes, writeErrors, loads, alert>>
  /\ UNCHANGED <<overlapped, actVars, startVars, reachable>>

\* The screen goes away: the effect's cleanup runs.
Unmount ==
  /\ phase = "mounted"
  /\ phase' = "unmounted"
  /\ subscribed' = FALSE
  /\ UNCHANGED <<isConnected, db, messages, sent, emitCount, lastEmission,
                 lastFetched, cache, cachedFrom, writes, writeErrors, loads, alert>>
  /\ UNCHANGED <<overlapped, actVars, startVars, reachable>>

\* The onSnapshot callback up to its await: decode, replace the list, serialize
\* and issue the cache write (a serialization error is caught and logged).
OnSnapshotAppends(docs, now) ==
  LET fetched == Fetched(docs, now)
  IN  /\ messages' = fetched \o messages
      /\ lastFetched' = Some(fetched)
      /\ IF SerializeThrows(fetched)
         THEN /\ writeErrors' = TRUE
              /\ writes' = writes
         ELSE /\ writeErrors' = writeErrors
              /\ writes' = Append(writes, [payload |-> Stringify(ToCache(fetched)),
                                           from |-> fetched])

OnSnapshot(docs, now) ==
  LET fetched == Fetched(docs, now)
  IN  /\ messages' = fetched
      /\ lastFetched' = Some(fetched)
      /\ IF SerializeThrows(fetched)
         THEN /\ writeErrors' = TRUE
              /\ writes' = writes
         ELSE /\ writeErrors' = writeErrors
              /\ writes' = Append(writes, [payload |-> Stringify(ToCache(fetched)),
                                           from |-> fetched])

\* Firestore delivers a snapshot of the query to the live listener, and the
\* callback runs on it.
Emit(others, now) ==
  /\ subscribed
  /\ emitCount < MaxEmissions
  /\ Len(writes) < MaxPending
  /\ emitCount' = emitCount + 1
  /\ lastEmission' = QuerySnapshot(Collection(others))
  /\ OnSnapshot(QuerySnapshot(Collection(others)), now)
  /\ overlapped' = (overlapped \/ writes # <<>>)
  /\ UNCHANGED <<isConnected, db, phase, subscribed, sent, cache, cachedFrom,
                 loads, alert>>
  /\ UNCHANGED <<actVars, startVars, reachable>>

\* AsyncStorage completes the oldest setItem call in flight and the callback's
\* await returns.  The callback starts each write without waiting for the earlier
\* ones, so several can be in flight; the storage module runs its operations on
\* one serial queue, in the order they were issued.
WriteApplyNewestFirst ==
  /\ writes # <<>>
  /\ cache' = writes[Len(writes)].payload
  /\ cachedFrom' = Some(writes[Len(writes)].from)
  /\ writes' = RemoveAt(writes, Len(writes))
  /\ UNCHANGED <<isConnected, db, phase, messages, subscribed, sent, emitCount,
                 lastEmission, lastFetched, writeErrors, loads, alert>>
  /\ UNCHANGED <<overlapped, actVars, startVars, reachable>>

WriteApply ==
  /\ writes # <<>>
  /\ cache' = Head(writes).payload
  /\ cachedFrom' = Some(Head(writes).from)
  /\ writes' = Tail(writes)
  /\ UNCHANGED <<isConnected, db, phase, messages, subscribed, sent, emitCount,
                 lastEmission, lastFetched, writeErrors, loads, alert>>
  /\ UNCHANGED <<overlapped, actVars, startVars, reachable>>

\* The oldest setItem call in flight rejects: caught and logged by the callback.
WriteFail ==
  /\ writes # <<>>
  /\ writes' = Tail(writes)
  /\ writeErrors' = TRUE
  /\ UNCHANGED <<isConnected, db, phase, messages, subscribed, sent, emitCount,
                 lastEmission, lastFetched, cache, cachedFrom, loads, alert>>
  /\ UNCHANGED <<overlapped, actVars, startVars, reachable>>

\* What loadFromCache does with the value getItem returned: the list it sets, or
\* None when it sets nothing (early return, or an error caught and logged).
LoadResult(raw) ==
  CASE raw.kind = "absent" -> None
    [] raw.kind = "unparsable" -> None
    [] raw.kind = "nonarray" -> Some(<<>>)
    [] raw.kind = "array" ->
         IF \E i \in 1..Len(raw.entries) : IsNullEntry(raw.entries[i])
         THEN None
         ELSE Some(Restored(raw.entries))

\* getItem returns (or rejects) and loadFromCache runs to its end. setMessages on a
\* screen that is gone changes nothing.
LoadFinish(readOk) ==
  /\ loads > 0
  /\ loads' = loads - 1
  /\ messages' = IF readOk /\ phase = "mounted" /\ LoadResult(cache) # None
                 THEN LoadResult(cache)[1]
                 ELSE messages
  /\ UNCHANGED <<isConnected, db, phase, subscribed, sent, emitCount, lastEmission,
                 lastFetched, cache, cachedFrom, writes, writeErrors, alert>>
  /\ UNCHANGED <<overlapped, actVars, startVars, reachable>>

OnSendIgnoresConnectivity(newMessages) ==
  /\ phase = "mounted"
  /\ newMessages # <<>>
  /\ Len(sent) < MaxSent
  /\ alert' = IF isConnected THEN alert ELSE "You are offline"
  /\ sent' = Append(sent, newMessages[1])
  /\ UNCHANGED <<isConnected, db, phase, messages, subscribed, emitCount, lastEmission,
                 lastFetched, cache, cachedFrom, writes, writeErrors, loads>>
  /\ UNCHANGED <<overlapped, actVars, startVars, reachable>>

\* onSend with an optimistic local insert.
OnSendInsertsLocally(newMessages) ==
  /\ phase = "mounted"
  /\ IF ~isConnected
     THEN /\ alert' = "You are offline"
          /\ sent' = sent
          /\ messages' = messages
     ELSE IF ~db \/ newMessages = <<>>
     THEN /\ alert' = alert
          /\ sent' = sent
          /\ messages' = messages
     ELSE /\ Len(sent) < MaxSent
          /\ alert' = alert
          /\ sent' = Append(sent, newMessages[1])
          /\ messages' = <<[_id |-> 10 + Len(sent) + 1, text |-> newMessages[1].text,
                            createdAt |-> newMessages[1].createdAt,
                            user |-> newMessages[1].user, system |-> None]>> \o messages
  /\ UNCHANGED <<isConnected, db, phase, subscribed, emitCount, lastEmission,
                 lastFetched, cache, cachedFrom, writes, writeErrors, loads>>
  /\ UNCHANGED <<overlapped, actVars, startVars, reachable>>

\* onSend: rejected with an alert when offline, else addDoc of the first message.
\* addDoc throws without db or without a message.
OnSend(newMessages) ==
  /\ phase = "mounted"
  /\ IF ~isConnected
     THEN /\ alert' = "You are offline"
          /\ sent' = sent
     ELSE IF ~db \/ newMessages = <<>>
     THEN /\ alert' = alert
          /\ sent' = sent
     ELSE /\ Len(sent) < MaxSent
          /\ alert' = alert
          /\ sent' = Append(sent, newMessages[1])
  /\ UNCHANGED <<isConnected, db, phase, messages, subscribed, emitCount, lastEmission,
                 lastFetched, cache, cachedFrom, writes, writeErrors, loads>>
  /\ UNCHANGED <<overlapped, actVars, startVars, reachable>>

\* The user dismisses the alert.
DismissAlert ==
  /\ alert # "none"
  /\ alert' = "none"
  /\ UNCHANGED <<isConnected, db, phase, messages, subscribed, sent, emitCount,
                 lastEmission, lastFetched, cache, cachedFrom, writes, writeErrors, loads>>
  /\ UNCHANGED <<overlapped, actVars, startVars, reachable>>

NextChat ==
  \/ Mount
  \/ \E b \in BOOLEAN : SetConnected(b)
  \/ Unmount
  \/ \E others \in SUBSET ForeignDocs : \E now \in Nows : Emit(others, now)
  \/ WriteApply
  \/ WriteFail
  \/ \E ok \in BOOLEAN : LoadFinish(ok)
  \/ \E ms \in SendInputs : OnSend(ms)
  \/ DismissAlert

-----------------------------------------------------------------------------
(* CustomActions.js: the attachment sheet.  One handler runs at a time; each   *)
(* await is a step whose result the environment chooses.                       *)

\* The user prop (the sender of the messages built here).
CurrentUser == UserAnn

Handlers == {"pickImage", "takePhoto", "shareLocation"}

\* The title of the alert each handler's catch block shows.
FailTitle(h) ==
  CASE h = "pickImage" -> "Image selection failed"
    [] h = "takePhoto" -> "Photo capture failed"
    [] h = "shareLocation" -> "Location sharing failed"

\* Results of awaited calls.
Pending == [kind |-> "pending"]
Ok == [kind |-> "ok"]
Threw == [kind |-> "throw"]

PermissionResults ==
  {Threw, [kind |-> "status", status |-> "granted"], [kind |-> "status", status |-> "denied"]}

PickerResults ==
  {Threw,
   [kind |-> "picked", canceled |-> TRUE, uri |-> None],
   [kind |-> "picked", canceled |-> FALSE, uri |-> None],
   [kind |-> "picked", canceled |-> FALSE, uri |-> Some("file:///photo.jpg")]}

VoidResults == {Threw, Ok}

\* getDownloadURL: an error, or one of the URLs the service can hand out.
DownloadURLs == {"https://storage/o/file.jpg?token=a", "https://storage/o/file.jpg?token=b"}
UrlResults == {Threw} \cup {[kind |-> "url", url |-> u] : u \in DownloadURLs}

\* auth.currentUser?.getIdToken?.(): an error, undefined without a user, a token.
IdTokenResults ==
  {Threw, [kind |-> "token", token |-> None], [kind |-> "token", token |-> Some("idToken")]}

\* The REST POST: a network error, or a response with a status and a body.
RestStatuses == {"200", "404", "403", "500"}
RestBodies == {"", "bucket not found"}
RestResults ==
  {Threw} \cup {[kind |-> "response", status |-> s, body |-> b] : s \in RestStatuses, b \in RestBodies}

StatusText(status) ==
  CASE status = "200" -> "OK"
    [] status = "404" -> "Not Found"
    [] status = "403" -> "Forbidden"
    [] status = "500" -> "Internal Server Error"

ResOk(status) == status = "200"

StorageBucketName == "chat-demo-502d3.firebasestorage.app"

\* The error a rejected call throws: one error per call made, told apart by the
\* call and the tier it was made in.
ErrorOf(call, tier) == [message |-> <<call, "failed in tier", ToString(tier)>>]

\* The error the tertiary tier throws for a response that is not ok: the pieces of
\* its message, in order.
RestErrorAlwaysGeneric(status, body) ==
  [message |-> <<"REST upload failed:", status, StatusText(status), body>>]

RestError(status, body) ==
  IF status = "404"
  THEN [message |-> <<"REST upload failed: 404 Not Found. Bucket", StorageBucketName,
                      "may not exist or Storage is not enabled. Response:", body>>]
  ELSE [message |-> <<"REST upload failed:", status, StatusText(status), body>>]

ServicesResults ==
  {Threw, [kind |-> "enabled", enabled |-> TRUE], [kind |-> "enabled", enabled |-> FALSE]}

\* A position read: an error, null, a position without numeric coordinates, a
\* position with them.
NoPosition == [kind |-> "null"]
PositionOf(coords) == [kind |-> "position", coords |-> coords]
PositionResults ==
  {Threw, NoPosition, PositionOf(None),
   PositionOf(Some([latitude |-> 48, longitude |-> 2])),
   PositionOf(Some([latitude |-> 40, longitude |-> 74]))}

\* The messages the handlers pass to onSend.
ImageMessage(url) == [text |-> "", image |-> url, user |-> CurrentUser]
LocationMessage(coords) ==
  [text |-> "",
   location |-> [latitude |-> coords.latitude, longitude |-> coords.longitude],
   user |-> CurrentUser]

\* How uploadImageAsync settles.
Resolved(url) == [kind |-> "resolved", url |-> url]
Rejected(e) == [kind |-> "rejected", error |-> e]

\* The log of external calls: a call is entered when made, its result when it
\* settles.  tier is the upload tier the call belongs to (0: none).
Invoke(call, tier) == [call |-> call, tier |-> tier, result |-> Pending]
Settled(r) == [calls EXCEPT ![Len(calls)].result = r]

\* The handler goes on to its next await.
Continue(r, next, call, tier) ==
  /\ pc' = next
  /\ calls' = Append(Settled(r), Invoke(call, tier))
  /\ UNCHANGED <<visible, outcome, alert, uploadResult, onSendLog>>

\* The finally block without its close().
FinallyLeavesOpen(how) ==
  /\ visible' = visible
  /\ pc' = "done"
  /\ outcome' = how

\* The finally block: close().
Finally(how) ==
  /\ visible' = FALSE
  /\ pc' = "done"
  /\ outcome' = how

\* The handler returns early.
Return(r, how) ==
  /\ calls' = Settled(r)
  /\ Finally(how)
  /\ UNCHANGED <<alert, uploadResult, onSendLog>>

\* The handler shows an alert and ends: an early return or its catch block.
AlertAndReturn(r, title, how) ==
  /\ calls' = Settled(r)
  /\ alert' = title
  /\ Finally(how)
  /\ UNCHANGED <<uploadResult, onSendLog>>

\* uploadImageAsync resolves with url: the handler passes one image message to
\* onSend.
UploadResolves(r, url) ==
  /\ calls' = Settled(r)
  /\ uploadResult' = Some(Resolved(url))
  /\ onSendLog' = Append(onSendLog, ImageMessage(url))
  /\ alert' = alert
  /\ Finally("sent")

\* err1, err2: the error the catch block of tier t has caught, if that tier has
\* failed in this invocation.
CaughtError(t) ==
  LET failed == {i \in 1..Len(calls) : calls[i].tier = t /\ calls[i].result.kind = "throw"}
  IN  IF failed = {} THEN None ELSE Some(ErrorOf(calls[CHOOSE i \in failed : TRUE].call, t))

\* throw err3 || err2 || err1, with the order reversed.
RethrowShallowest(err3, err2, err1) ==
  IF err1 # None THEN err1[1] ELSE IF err2 # None THEN err2[1] ELSE err3[1]

\* throw err3 || err2 || err1.
Rethrow(err3, err2, err1) ==
  IF err3 # None THEN err3[1] ELSE IF err2 # None THEN err2[1] ELSE err1[1]

\* uploadImageAsync rejects with e, and the handler sends the local file all the same.
UploadRejectsAndSends(r, e) ==
  /\ calls' = Settled(r)
  /\ uploadResult' = Some(Rejected(e))
  /\ onSendLog' = Append(onSendLog, ImageMessage("file:///photo.jpg"))
  /\ alert' = FailTitle(handler)
  /\ Finally("failed")

\* uploadImageAsync rejects with e: the handler's catch block shows its alert.
UploadRejects(r, e) ==
  /\ calls' = Settled(r)
  /\ uploadResult' = Some(Rejected(e))
  /\ onSendLog' = onSendLog
  /\ alert' = FailTitle(handler)
  /\ Finally("failed")

\* The tertiary tier fails with err3: its catch block rethrows.
TertiaryFails(r, err3) ==
  UploadRejects(r, Rethrow(Some(err3), CaughtError(2), CaughtError(1)))

\* The user taps the action button (rendered only while connected).
Open ==
  /\ isConnected
  /\ ~visible
  /\ visible' = TRUE
  /\ UNCHANGED <<isConnected, alert, handler, pc, calls, position, uploadResult,
                 onSendLog, outcome>>
  /\ UNCHANGED <<chatOnlyVars, startVars, reachable>>

\* The user taps Cancel, or dismisses the sheet.
Close ==
  /\ visible
  /\ visible' = FALSE
  /\ UNCHANGED <<isConnected, alert, handler, pc, calls, position, uploadResult,
                 onSendLog, outcome>>
  /\ UNCHANGED <<chatOnlyVars, startVars, reachable>>

\* The isConnected prop of the sheet changes.
ConnectivityChange ==
  /\ isConnected' = ~isConnected
  /\ UNCHANGED <<alert, visible, handler, pc, calls, position, uploadResult,
                 onSendLog, outcome>>
  /\ UNCHANGED <<chatOnlyVars, startVars, reachable>>

\* The user dismisses the alert a handler has shown.
DismissSheetAlert ==
  /\ alert # "none"
  /\ alert' = "none"
  /\ UNCHANGED <<isConnected, visible, handler, pc, calls, position, uploadResult,
                 onSendLog, outcome>>
  /\ UNCHANGED <<chatOnlyVars, startVars, reachable>>

\* ensureConnected without its test of isConnected.
EnsureConnectedAlwaysTrue == TRUE

\* ensureConnected.
EnsureConnected == isConnected

\* The permission request each handler makes first.
PermissionCall(h) ==
  CASE h = "pickImage" -> "requestMediaLibraryPermissionsAsync"
    [] h = "takePhoto" -> "requestCameraPermissionsAsync"
    [] h = "shareLocation" -> "requestForegroundPermissionsAsync"

\* The user taps an option: the handler runs up to its first await, or ends at
\* once when offline.
Press(h) ==
  /\ visible
  /\ pc \in {"idle", "done"}
  /\ handler' = h
  /\ position' = None
  /\ uploadResult' = None
  /\ onSendLog' = <<>>
  /\ IF ~EnsureConnected
     THEN /\ alert' = "Offline"
          /\ calls' = <<>>
          /\ Finally("offline")
     ELSE /\ alert' = alert
          /\ pc' = "permission"
          /\ calls' = <<Invoke(PermissionCall(h), 0)>>
          /\ UNCHANGED <<visible, outcome>>
  /\ UNCHANGED isConnected
  /\ UNCHANGED <<chatOnlyVars, startVars, reachable>>

\* The permission request settles, and the handler goes on whatever the status.
PermissionResultIgnoresStatus(r) ==
  /\ pc = "permission"
  /\ IF r.kind = "throw" THEN AlertAndReturn(r, FailTitle(handler), "failed")
     ELSE CASE handler = "pickImage" -> Continue(r, "picker", "launchImageLibraryAsync", 0)
            [] handler = "takePhoto" -> Continue(r, "picker", "launchCameraAsync", 0)
            [] handler = "shareLocation" -> Continue(r, "services", "hasServicesEnabledAsync", 0)
  /\ UNCHANGED <<isConnected, handler, position>>
  /\ UNCHANGED <<chatOnlyVars, startVars, reachable>>

\* The permission request settles.
PermissionResult(r) ==
  /\ pc = "permission"
  /\ IF r.kind = "throw" THEN AlertAndReturn(r, FailTitle(handler), "failed")
     ELSE IF r.status # "granted" THEN AlertAndReturn(r, "Permission required", "denied")
     ELSE CASE handler = "pickImage" -> Continue(r, "picker", "launchImageLibraryAsync", 0)
            [] handler = "takePhoto" -> Continue(r, "picker", "launchCameraAsync", 0)
            [] handler = "shareLocation" -> Continue(r, "services", "hasServicesEnabledAsync", 0)
  /\ UNCHANGED <<isConnected, handler, position>>
  /\ UNCHANGED <<chatOnlyVars, startVars, reachable>>

\* The library picker or the camera settles; with an asset, uploadImageAsync
\* starts by fetching the local file.
PickerResult(r) ==
  /\ pc = "picker"
  /\ IF r.kind = "throw" THEN AlertAndReturn(r, FailTitle(handler), "failed")
     ELSE IF r.canceled \/ r.uri = None THEN Return(r, "canceled")
     ELSE Continue(r, "fetch", "fetch", 0)
  /\ UNCHANGED <<isConnected, handler, position>>
  /\ UNCHANGED <<chatOnlyVars, startVars, reachable>>

\* fetch(uri), then response.blob(): both before the first try block.
FetchResult(r) ==
  /\ pc = "fetch"
  /\ IF r.kind = "throw" THEN UploadRejects(r, ErrorOf("fetch", 0))
     ELSE Continue(r, "blob", "blob", 0)
  /\ UNCHANGED <<isConnected, handler, position>>
  /\ UNCHANGED <<chatOnlyVars, startVars, reachable>>

BlobResult(r) ==
  /\ pc = "blob"
  /\ IF r.kind = "throw" THEN UploadRejects(r, ErrorOf("blob", 0))
     ELSE Continue(r, "uploadBytes", "uploadBytes", 1)
  /\ UNCHANGED <<isConnected, handler, position>>
  /\ UNCHANGED <<chatOnlyVars, startVars, reachable>>

\* Tier 1: uploadBytes, then getDownloadURL; an error of either starts tier 2.
UploadBytesResult(r) ==
  /\ pc = "uploadBytes"
  /\ IF r.kind = "throw" THEN Continue(r, "readBase64", "readAsStringAsync", 2)
     ELSE Continue(r, "url1", "getDownloadURL", 1)
  /\ UNCHANGED <<isConnected, handler, position>>
  /\ UNCHANGED <<chatOnlyVars, startVars, reachable>>

Url1Result(r) ==
  /\ pc = "url1"
  /\ IF r.kind = "throw" THEN Continue(r, "readBase64", "readAsStringAsync", 2)
     ELSE UploadResolves(r, r.url)
  /\ UNCHANGED <<isConnected, handler, position>>
  /\ UNCHANGED <<chatOnlyVars, startVars, reachable>>

\* Tier 2: readAsStringAsync, uploadString, getDownloadURL; an error of any
\* starts tier 3, which first asks the signed-in user for an id token.
ReadBase64Result(r) ==
  /\ pc = "readBase64"
  /\ IF r.kind = "throw" THEN Continue(r, "idToken", "getIdToken", 3)
     ELSE Continue(r, "uploadString", "uploadString", 2)
  /\ UNCHANGED <<isConnected, handler, position>>
  /\ UNCHANGED <<chatOnlyVars, startVars, reachable>>

UploadStringResult(r) ==
  /\ pc = "uploadString"
  /\ IF r.kind = "throw" THEN Continue(r, "idToken", "getIdToken", 3)
     ELSE Continue(r, "url2", "getDownloadURL", 2)
  /\ UNCHANGED <<isConnected, handler, position>>
  /\ UNCHANGED <<chatOnlyVars, startVars, reachable>>

Url2ResultFallsThrough(r) ==
  /\ pc = "url2"
  /\ Continue(r, "idToken", "getIdToken", 3)
  /\ UNCHANGED <<isConnected, handler, position>>
  /\ UNCHANGED <<chatOnlyVars, startVars, reachable>>

Url2Result(r) ==
  /\ pc = "url2"
  /\ IF r.kind = "throw" THEN Continue(r, "idToken", "getIdToken", 3)
     ELSE UploadResolves(r, r.url)
  /\ UNCHANGED <<isConnected, handler, position>>
  /\ UNCHANGED <<chatOnlyVars, startVars, reachable>>

\* Tier 3: the id token, the REST POST, getDownloadURL; an error of any is the
\* error uploadImageAsync rejects with.
IdTokenResult(r) ==
  /\ pc = "idToken"
  /\ IF r.kind = "throw" THEN TertiaryFails(r, ErrorOf("getIdToken", 3))
     ELSE Continue(r, "restPost", "restPost", 3)
  /\ UNCHANGED <<isConnected, handler, position>>
  /\ UNCHANGED <<chatOnlyVars, startVars, reachable>>

RestPostResult(r) ==
  /\ pc = "restPost"
  /\ IF r.kind = "throw" THEN TertiaryFails(r, ErrorOf("restPost", 3))
     ELSE IF ~ResOk(r.status) THEN TertiaryFails(r, RestError(r.status, r.body))
     ELSE Continue(r, "url3", "getDownloadURL", 3)
  /\ UNCHANGED <<isConnected, handler, position>>
  /\ UNCHANGED <<chatOnlyVars, startVars, reachable>>

Url3Result(r) ==
  /\ pc = "url3"
  /\ IF r.kind = "throw" THEN TertiaryFails(r, ErrorOf("getDownloadURL", 3))
     ELSE UploadResolves(r, r.url)
  /\ UNCHANGED <<isConnected, handler, position>>
  /\ UNCHANGED <<chatOnlyVars, startVars, reachable>>

\* hasServicesEnabledAsync settles.
ServicesResult(r) ==
  /\ pc = "services"
  /\ IF r.kind = "throw" THEN AlertAndReturn(r, FailTitle(handler), "failed")
     ELSE IF ~r.enabled THEN AlertAndReturn(r, "Location services are off", "servicesOff")
     ELSE Continue(r, "high", "getCurrentPositionAsync:High", 0)
  /\ UNCHANGED <<isConnected, handler, position>>
  /\ UNCHANGED <<chatOnlyVars, startVars, reachable>>

\* What the position variable holds after an attempt: the result, or still null
\* after an error or a null result.
Assigned(r) == IF r.kind = "position" THEN Some(r) ELSE None

\* The end of shareLocation: numeric coordinates go to onSend in one message,
\* anything else shows the "unavailable" alert.
SendOrUnavailable(r, pos) ==
  /\ calls' = Settled(r)
  /\ uploadResult' = uploadResult
  /\ IF pos # None /\ pos[1].coords # None
     THEN /\ onSendLog' = Append(onSendLog, LocationMessage(pos[1].coords[1]))
          /\ alert' = alert
          /\ Finally("sent")
     ELSE /\ onSendLog' = onSendLog
          /\ alert' = "Current location is unavailable"
          /\ Finally("unavailable")

\* One position attempt settles: without a position the next attempt starts,
\* after the last one or with a position the handler goes to its end.
AttemptResultSkipsBalanced(r, next, call) ==
  /\ position' = Assigned(r)
  /\ IF Assigned(r) = None /\ next # "end"
     THEN Continue(r, "lastKnown", "getLastKnownPositionAsync", 0)
     ELSE SendOrUnavailable(r, Assigned(r))
  /\ UNCHANGED <<isConnected, handler>>
  /\ UNCHANGED <<chatOnlyVars, startVars, reachable>>

AttemptResult(r, next, call) ==
  /\ position' = Assigned(r)
  /\ IF Assigned(r) = None /\ next # "end"
     THEN Continue(r, next, call, 0)
     ELSE SendOrUnavailable(r, Assigned(r))
  /\ UNCHANGED <<isConnected, handler>>
  /\ UNCHANGED <<chatOnlyVars, startVars, reachable>>

\* The high-accuracy read settles.
HighResult(r) ==
  /\ pc = "high"
  /\ AttemptResult(r, "balanced", "getCurrentPositionAsync:Balanced")

\* The balanced-accuracy read settles.
BalancedResult(r) ==
  /\ pc = "balanced"
  /\ AttemptResult(r, "lastKnown", "getLastKnownPositionAsync")

\* The last-known read settles.
LastKnownResult(r) ==
  /\ pc = "lastKnown"
  /\ AttemptResult(r, "end", "none")

NextActions ==
  \/ Open
  \/ Close
  \/ ConnectivityChange
  \/ DismissSheetAlert
  \/ \E h \in Handlers : Press(h)
  \/ \E r \in PermissionResults : PermissionResult(r)
  \/ \E r \in PickerResults : PickerResult(r)
  \/ \E r \in VoidResults : FetchResult(r)
  \/ \E r \in VoidResults : BlobResult(r)
  \/ \E r \in VoidResults : UploadBytesResult(r)
  \/ \E r \in UrlResults : Url1Result(r)
  \/ \E r \in VoidResults : ReadBase64Result(r)
  \/ \E r \in VoidResults : UploadStringResult(r)
  \/ \E r \in UrlResults : Url2Result(r)
  \/ \E r \in IdTokenResults : IdTokenResult(r)
  \/ \E r \in RestResults : RestPostResult(r)
  \/ \E r \in UrlResults : Url3Result(r)
  \/ \E r \in ServicesResults : ServicesResult(r)
  \/ \E r \in PositionResults : HighResult(r)
  \/ \E r \in PositionResults : BalancedResult(r)
  \/ \E r \in PositionResults : LastKnownResult(r)

-----------------------------------------------------------------------------
(* Start.js: the Start screen *)

\* The characters String.prototype.trim removes, as far as the inputs have them.
Whitespace == {" ", "\t"}

\* What the user can type into the name input: strings as sequences of characters.
Names ==
  {<<>>, <<" ">>, <<" ", "\t">>, <<"a">>, <<" ", "a", "\t">>, <<"a", " ", "b">>,
   <<"\t", "a", " ", "b", " ", " ">>}

\* The first two of backgroundColors.
BackgroundColors == {"#090C08", "#474056"}

RECURSIVE TrimStart(_)
TrimStart(s) == IF s # <<>> /\ Head(s) \in Whitespace THEN TrimStart(Tail(s)) ELSE s

RECURSIVE TrimEnd(_)
TrimEnd(s) ==
  IF s # <<>> /\ s[Len(s)] \in Whitespace THEN TrimEnd(SubSeq(s, 1, Len(s) - 1)) ELSE s

\* String.prototype.trim.
TrimLeavesTrailing(s) == TrimStart(s)

Trim(s) == TrimEnd(TrimStart(s))

\* What signInAnonymouslyRN can settle with: an error, a result without a user,
\* a result whose user has a uid.
SignInResults ==
  {Threw, [kind |-> "result", uid |-> None], [kind |-> "result", uid |-> Some("uid-1")]}

OfflineId(now) == [kind |-> "offline", now |-> now]
UserId(uid) == [kind |-> "uid", uid |-> uid]

\* The params of navigation.navigate('Chat', ...).
Params(userId, n, color) == [userId |-> userId, name |-> Trim(n), backgroundColor |-> color]

Navigate(params) ==
  /\ screen' = "Chat"
  /\ route' = Some(params)

\* onChangeText={setName}.
SetName(n) ==
  /\ screen = "Start"
  /\ n # name
  /\ name' = n
  /\ UNCHANGED <<isConnected, alert, selectedColor, signIn, screen, route>>
  /\ UNCHANGED <<chatOnlyVars, actVars, reachable>>

\* The user picks a background color.
SetSelectedColor(c) ==
  /\ screen = "Start"
  /\ c # selectedColor
  /\ selectedColor' = c
  /\ UNCHANGED <<isConnected, alert, name, signIn, screen, route>>
  /\ UNCHANGED <<chatOnlyVars, actVars, reachable>>

\* The isConnected prop of the Start screen changes.
StartConnectivityChange ==
  /\ isConnected' = ~isConnected
  /\ UNCHANGED <<alert, name, selectedColor, signIn, screen, route>>
  /\ UNCHANGED <<chatOnlyVars, actVars, reachable>>

\* The user dismisses the alert of the Start screen.
DismissStartAlert ==
  /\ alert # "none"
  /\ alert' = "none"
  /\ UNCHANGED <<isConnected, name, selectedColor, signIn, screen, route>>
  /\ UNCHANGED <<chatOnlyVars, actVars, reachable>>

\* The user presses "Start Chatting": signInUser runs up to its first await.  The
\* call keeps the name and the color of the render it was created in.
SignInUser(now) ==
  /\ screen = "Start"
  /\ IF Trim(name) = <<>>
     THEN /\ alert' = "Please enter your name"
          /\ UNCHANGED <<signIn, screen, route>>
     ELSE IF ~isConnected
     THEN /\ Navigate(Params(OfflineId(now), name, selectedColor))
          /\ UNCHANGED <<alert, signIn>>
     ELSE /\ Len(signIn) < MaxSignIns
          /\ signIn' = Append(signIn, [name |-> name, color |-> selectedColor])
          /\ UNCHANGED <<alert, screen, route>>
  /\ UNCHANGED <<isConnected, name, selectedColor>>
  /\ UNCHANGED <<chatOnlyVars, actVars, reachable>>

\* signInAnonymouslyRN settles, and a result without a user navigates as well.
SignInResultIgnoresMissingUser(k, r) ==
  /\ k \in 1..Len(signIn)
  /\ signIn' = RemoveAt(signIn, k)
  /\ IF r.kind = "throw"
     THEN /\ alert' = "Unable to sign in"
          /\ UNCHANGED <<screen, route>>
     ELSE /\ Navigate(Params(UserId(IF r.uid # None THEN r.uid[1] ELSE "undefined"),
                              signIn[k].name, signIn[k].color))
          /\ alert' = alert
  /\ UNCHANGED <<isConnected, name, selectedColor>>
  /\ UNCHANGED <<chatOnlyVars, actVars, reachable>>

\* signInAnonymouslyRN settles for the k-th call in flight.
SignInResult(k, r) ==
  /\ k \in 1..Len(signIn)
  /\ signIn' = RemoveAt(signIn, k)
  /\ IF r.kind = "throw"
     THEN /\ alert' = "Unable to sign in"
          /\ UNCHANGED <<screen, route>>
     ELSE IF r.uid # None
     THEN /\ Navigate(Params(UserId(r.uid[1]), signIn[k].name, signIn[k].color))
          /\ alert' = alert
     ELSE /\ alert' = "Sign-in failed"
          /\ UNCHANGED <<screen, route>>
  /\ UNCHANGED <<isConnected, name, selectedColor>>
  /\ UNCHANGED <<chatOnlyVars, actVars, reachable>>

\* The user goes back from Chat to Start.
GoBack ==
  /\ screen = "Chat"
  /\ screen' = "Start"
  /\ route' = None
  /\ UNCHANGED <<isConnected, alert, name, selectedColor, signIn>>
  /\ UNCHANGED <<chatOnlyVars, actVars, reachable>>

NextStart ==
  \/ \E n \in Names : SetName(n)
  \/ \E c \in BackgroundColors : SetSelectedColor(c)
  \/ StartConnectivityChange
  \/ DismissStartAlert
  \/ \E now \in Nows : SignInUser(now)
  \/ \E k \in 1..MaxSignIns : \E r \in SignInResults : SignInResult(k, r)
  \/ GoBack

-----------------------------------------------------------------------------
(* App.js: the assembled app.  One Chat session per run. *)

\* The isConnected prop the screens get when the network is reachable or not: App
\* renders Start as component={Start} and Chat as <Chat {...props} db={db} />, so
\* neither gets the prop; both read undefined, which their tests take as false.
IsConnectedProp(r) == FALSE

\* The host reports a change of network reachability.
NetworkChange ==
  /\ reachable' = ~reachable
  /\ isConnected' = IsConnectedProp(reachable')
  /\ UNCHANGED <<alert, chatOnlyVars, actVars, startVars>>

\* The navigator renders Chat once it is the screen on top.
AppOpenChat ==
  /\ screen = "Chat"
  /\ Mount

\* The user goes back: the navigator removes Chat, whose effect cleanup runs.
AppGoBack ==
  /\ screen = "Chat"
  /\ screen' = "Start"
  /\ route' = None
  /\ phase' = IF phase = "mounted" THEN "unmounted" ELSE phase
  /\ subscribed' = FALSE
  /\ UNCHANGED <<isConnected, alert, reachable, db, messages, sent, emitCount,
                 lastEmission, lastFetched, cache, cachedFrom, writes, writeErrors,
                 overlapped, loads, name, selectedColor, signIn>>
  /\ UNCHANGED actVars

\* With the prop never true, Start takes its offline branch and Chat its cache
\* load; Chat hides its input toolbar, so onSend is never called.
NextApp ==
  \/ NetworkChange
  \/ \E n \in Names : SetName(n)
  \/ \E c \in BackgroundColors : SetSelectedColor(c)
  \/ \E now \in Nows : SignInUser(now)
  \/ AppOpenChat
  \/ \E ok \in BOOLEAN : LoadFinish(ok)
  \/ AppGoBack
  \/ DismissAlert

-----------------------------------------------------------------------------
(* Initial states and specifications *)

\* The Chat screen as rendered, before its effect has run.
ChatCreated ==
  /\ phase = "created"
  /\ messages = <<>>
  /\ subscribed = FALSE
  /\ sent = <<>>
  /\ emitCount = 0
  /\ lastEmission = <<>>
  /\ lastFetched = None
  /\ cachedFrom = None
  /\ writes = <<>>
  /\ writeErrors = FALSE
  /\ overlapped = FALSE
  /\ loads = 0

\* The attachment sheet as constructed: closed, no handler running.
SheetClosed ==
  /\ visible = FALSE
  /\ handler = "none"
  /\ pc = "idle"
  /\ calls = <<>>
  /\ position = None
  /\ uploadResult = None
  /\ onSendLog = <<>>
  /\ outcome = "none"

\* The Start screen as constructed.
StartShown ==
  /\ name = <<>>
  /\ selectedColor = "#090C08"
  /\ signIn = <<>>
  /\ screen = "Start"
  /\ route = None

\* The Chat screen, with any db prop and whatever an earlier session left in
\* the cache.
InitChat ==
  /\ reachable = TRUE
  /\ isConnected \in BOOLEAN
  /\ alert = "none"
  /\ db \in BOOLEAN
  /\ cache \in InitialCaches
  /\ ChatCreated
  /\ SheetClosed
  /\ StartShown

SpecChat == InitChat /\ [][NextChat]_vars

\* The attachment sheet.
InitActions ==
  /\ reachable = TRUE
  /\ isConnected \in BOOLEAN
  /\ alert = "none"
  /\ db = TRUE
  /\ cache = Absent
  /\ ChatCreated
  /\ SheetClosed
  /\ StartShown

SpecActions == InitActions /\ [][NextActions]_vars

\* The Start screen.
InitStart ==
  /\ reachable = TRUE
  /\ isConnected \in BOOLEAN
  /\ alert = "none"
  /\ db = TRUE
  /\ cache = Absent
  /\ ChatCreated
  /\ SheetClosed
  /\ StartShown

SpecStart == InitStart /\ [][NextStart]_vars

\* The assembled app: App passes the db of firebase.js to Chat.
InitApp ==
  /\ reachable \in BOOLEAN
  /\ isConnected = IsConnectedProp(reachable)
  /\ alert = "none"
  /\ db = TRUE
  /\ cache \in InitialCaches
  /\ ChatCreated
  /\ SheetClosed
  /\ StartShown

SpecApp == InitApp /\ [][NextApp]_vars

-----------------------------------------------------------------------------
(* Properties of the Chat screen *)

\* C1: right after each emission delivered to the live listener, the in-memory
\* list is exactly the decoded documents of that emission, in the emission's
\* order (whole-list replace: nothing of an earlier emission stays).
C1_ListIsLastEmission ==
  [][emitCount' = emitCount + 1 =>
       \E now \in Nows :
         /\ Len(messages') = Len(lastEmission')
         /\ \A i \in 1..Len(lastEmission') :
              messages'[i] = DecodeDoc(lastEmission'[i], now)]_vars

\* C1 witness: a second emission has replaced the list, and an entry of the
\* earlier emission (its cache write is still in flight) is no longer in it.
C1_Witness ==
  /\ subscribed
  /\ emitCount >= 2
  /\ Len(messages) >= 1
  /\ \E now \in Nows : messages = Fetched(lastEmission, now)
  /\ \E k \in 1..Len(writes) : \E j \in 1..Len(writes[k].from) :
       \A i \in 1..Len(messages) : messages[i]._id # writes[k].from[j]._id

\* C2: a call of onSend while isConnected is false adds no document to the
\* remote collection, shows the offline alert, and leaves the in-memory list and
\* the cache (stored value and writes in flight) as they were.
C2_OfflineSendRejected ==
  [][((\E ms \in SendInputs : OnSend(ms)) /\ ~isConnected) =>
       /\ sent' = sent
       /\ alert' = "You are offline"
       /\ messages' = messages
       /\ cache' = cache
       /\ writes' = writes]_vars

\* C2 witness: the offline alert is up on a screen that shows cached messages.
C2_Witness ==
  /\ phase = "mounted"
  /\ ~isConnected
  /\ alert = "You are offline"
  /\ messages # <<>>
  /\ cache.kind = "array"

\* C3 (as claimed): when loadFromCache finds the snapshot absent, unparsable or
\* not an array, the in-memory list is empty once the load has finished, whatever
\* it held before.
C3_MalformedCacheLoadsEmpty ==
  [][(LoadFinish(TRUE) /\ phase = "mounted"
        /\ cache.kind \in {"absent", "unparsable", "nonarray"}) =>
       messages' = <<>>]_vars

\* C3's case: the screen went offline after a snapshot whose cache write was
\* rejected; the load has found no snapshot and the list still holds the
\* messages of the snapshot.
C3_Witness ==
  /\ phase = "mounted"
  /\ ~isConnected
  /\ loads = 0
  /\ emitCount > 0
  /\ writeErrors
  /\ writes = <<>>
  /\ cache = Absent
  /\ messages # <<>>

\* C4: a load of a snapshot that the subscription callback serialized sets the
\* in-memory list to the list that was serialized: same messages, same order,
\* every field equal, createdAt a Date of the same instant.
C4_CacheRoundTrip ==
  [][(LoadFinish(TRUE) /\ phase = "mounted" /\ cachedFrom # None) =>
       messages' = cachedFrom[1]]_vars

\* C4 witness: offline, the list shows a message restored from the snapshot (the
\* last emission decoded to another list), with a createdAt that has milliseconds.
C4_Witness ==
  /\ ~isConnected
  /\ cachedFrom # None
  /\ messages = cachedFrom[1]
  /\ lastFetched # Some(messages)
  /\ \E i \in 1..Len(messages) : messages[i].createdAt.ms % 1000 # 0

\* C8: a Chat screen that starts with isConnected false creates no live
\* subscription and writes nothing to the cache, and its load of a valid cached
\* snapshot sets the in-memory list to exactly the cached messages.
C8_OfflineStartLoadsCache ==
  [][/\ (Mount /\ ~isConnected) =>
          (~subscribed' /\ loads' = loads + 1 /\ cache' = cache /\ writes' = writes)
     /\ (LoadFinish(TRUE) /\ phase = "mounted" /\ cache.kind = "array"
           /\ \A i \in 1..Len(cache.entries) : ~IsNullEntry(cache.entries[i])) =>
          /\ Len(messages') = Len(cache.entries)
          /\ \A i \in 1..Len(cache.entries) :
               messages'[i] = RestoreEntry(cache.entries[i])
          /\ subscribed' = subscribed
          /\ cache' = cache
          /\ writes' = writes]_vars

\* C8 witness: started offline with the stored snapshot, never subscribed; the
\* list holds the one cached message.
C8_Witness ==
  /\ phase = "mounted"
  /\ ~isConnected
  /\ ~subscribed
  /\ emitCount = 0
  /\ loads = 0
  /\ cache = ArrayOf(<<StoredEntry>>)
  /\ writes = <<>>
  /\ messages = <<RestoreEntry(StoredEntry)>>

-----------------------------------------------------------------------------
(* Properties of the attachment sheet *)

\* C5: whenever a call of the primary tier has failed and the secondary tier has
\* succeeded (its getDownloadURL has returned a URL), uploadImageAsync has
\* resolved with that URL and no call of the tertiary tier has been made.
C5_SecondaryTierResolves ==
  \A i \in 1..Len(calls) :
    (/\ calls[i].tier = 2
     /\ calls[i].call = "getDownloadURL"
     /\ calls[i].result.kind = "url"
     /\ \E j \in 1..Len(calls) : calls[j].tier = 1 /\ calls[j].result.kind = "throw")
    => /\ uploadResult = Some(Resolved(calls[i].result.url))
       /\ \A j \in 1..Len(calls) : calls[j].tier # 3

\* C5's case: the primary uploadBytes threw, the secondary returned the second
\* of the URLs, the handler passed it to onSend.
C5_Witness ==
  /\ handler = "pickImage"
  /\ pc = "done"
  /\ \E j \in 1..Len(calls) : calls[j].call = "uploadBytes" /\ calls[j].result.kind = "throw"
  /\ \E j \in 1..Len(calls) : calls[j].call = "uploadString" /\ calls[j].result.kind = "ok"
  /\ uploadResult = Some(Resolved("https://storage/o/file.jpg?token=b"))
  /\ Len(onSendLog) = 1

C7_LocationAttemptsInOrder ==
  LET rank(c) == CASE c = "getCurrentPositionAsync:High" -> 1
                   [] c = "getCurrentPositionAsync:Balanced" -> 2
                   [] c = "getLastKnownPositionAsync" -> 3
                   [] OTHER -> 0
  IN  handler = "shareLocation" =>
        /\ \A i, j \in 1..Len(calls) :
             (i < j /\ rank(calls[i].call) > 0 /\ rank(calls[j].call) > 0)
             => rank(calls[i].call) < rank(calls[j].call)
        /\ \A j \in 1..Len(calls) : \A n \in 1..2 :
             n < rank(calls[j].call)
             => \E i \in 1..(j - 1) :
                  /\ rank(calls[i].call) = n
                  /\ calls[i].result.kind \in {"throw", "null"}
        /\ \A j \in 1..Len(calls) :
             (/\ rank(calls[j].call) = 3
              /\ calls[j].result.kind = "position"
              /\ calls[j].result.coords # None)
             => onSendLog = <<LocationMessage(calls[j].result.coords[1])>>

\* C7's case: the high-accuracy read threw, the balanced one returned null, the
\* last-known position had coordinates, and one message went to onSend.
C7_Witness ==
  /\ handler = "shareLocation"
  /\ pc = "done"
  /\ outcome = "sent"
  /\ Len(calls) = 5
  /\ calls[3].result.kind = "throw"
  /\ calls[4].result.kind = "null"
  /\ calls[5].call = "getLastKnownPositionAsync"
  /\ Len(onSendLog) = 1
  /\ onSendLog[1].location = [latitude |-> 40, longitude |-> 74]

-----------------------------------------------------------------------------
(* Properties of the Start screen *)

\* C10: signInUser with an empty or whitespace-only name shows the "Please enter
\* your name" alert and neither signs in nor navigates; and every navigation to
\* Chat carries a non-empty name without whitespace at its ends that is what is
\* left of the name signInUser was called with when the whitespace at its ends is
\* removed.
C10_NeverNavigatesWithBlankName ==
  [][LET blank(s) == \A i \in 1..Len(s) : s[i] \in Whitespace
         trimmed(t, s) ==
           /\ t # <<>>
           /\ t[1] \notin Whitespace
           /\ t[Len(t)] \notin Whitespace
           /\ \E i \in 1..Len(s) :
                /\ i + Len(t) - 1 <= Len(s)
                /\ t = SubSeq(s, i, i + Len(t) - 1)
                /\ blank(SubSeq(s, 1, i - 1))
                /\ blank(SubSeq(s, i + Len(t), Len(s)))
     IN  /\ ((\E now \in Nows : SignInUser(now)) /\ blank(name))
            => /\ alert' = "Please enter your name"
               /\ signIn' = signIn
               /\ screen' = screen
               /\ route' = route
         /\ (screen' = "Chat" /\ <<screen, route>> # <<screen', route'>>)
            => /\ route' # None
               /\ \/ ((\E now \in Nows : SignInUser(now)) /\ trimmed(route'[1].name, name))
                  \/ \E k \in 1..Len(signIn) : trimmed(route'[1].name, signIn[k].name)]_vars

\* C10's case: a sign-in started with a name that has whitespace at both ends
\* has navigated to Chat, after a whitespace-only name was refused.
C10_Witness ==
  /\ screen = "Chat"
  /\ route # None
  /\ route[1].name = <<"a", " ", "b">>
  /\ route[1].userId.kind = "uid"
  /\ name = <<"\t", "a", " ", "b", " ", " ">>
  /\ alert = "Please enter your name"

-----------------------------------------------------------------------------
(* Properties of the attachment sheet: how the handlers end *)

\* C11: in every step in which an invocation of pickImage, takePhoto or
\* shareLocation ends (its last await settles, or it is rejected at once because
\* the device is offline), the attachment sheet is closed afterwards, whatever the
\* way it ends.
C11_SheetClosesOnEveryPath ==
  [][((pc # "done" /\ pc' = "done") \/ ((\E h \in Handlers : Press(h)) /\ ~isConnected))
       => /\ visible' = FALSE
          /\ outcome' \in {"sent", "offline", "denied", "servicesOff", "canceled",
                           "unavailable", "failed"}]_vars

\* C11's case: the picker was cancelled and the sheet is closed.
C11_Witness ==
  /\ handler = "pickImage"
  /\ pc = "done"
  /\ outcome = "canceled"
  /\ ~visible
  /\ calls[Len(calls)].result.kind = "picked"

\* C17: when a call of each of the three tiers has failed (for the tertiary tier:
\* a call has thrown, or the POST was answered with a status that is not ok),
\* uploadImageAsync has rejected with the error of the tertiary tier, which is
\* neither the primary nor the secondary error, and has not resolved.
C17_DeepestErrorPropagates ==
  LET threw(t) == {i \in 1..Len(calls) : calls[i].tier = t /\ calls[i].result.kind = "throw"}
      refused == {i \in 1..Len(calls) :
                    /\ calls[i].tier = 3
                    /\ calls[i].result.kind = "response"
                    /\ calls[i].result.status # "200"}
  IN  (threw(1) # {} /\ threw(2) # {} /\ threw(3) \cup refused # {})
      => /\ uploadResult # None
         /\ uploadResult[1].kind = "rejected"
         /\ \/ \E i \in threw(3) : uploadResult[1].error = ErrorOf(calls[i].call, 3)
            \/ \E i \in refused :
                 uploadResult[1].error = RestError(calls[i].result.status, calls[i].result.body)
         /\ \A t \in 1..2 : \A i \in threw(t) :
              uploadResult[1].error # ErrorOf(calls[i].call, t)
         /\ onSendLog = <<>>

\* C17's case: getDownloadURL threw in the primary tier, uploadString in the
\* secondary, and after an accepted POST getDownloadURL threw again.
C17_Witness ==
  /\ pc = "done"
  /\ handler = "takePhoto"
  /\ \E i \in 1..Len(calls) :
       calls[i].tier = 1 /\ calls[i].call = "getDownloadURL" /\ calls[i].result.kind = "throw"
  /\ \E i \in 1..Len(calls) :
       calls[i].tier = 2 /\ calls[i].call = "uploadString" /\ calls[i].result.kind = "throw"
  /\ calls[Len(calls)].tier = 3
  /\ calls[Len(calls)].call = "getDownloadURL"
  /\ uploadResult = Some(Rejected(ErrorOf("getDownloadURL", 3)))

\* C18: a failure reaches the caller of uploadImageAsync only after the
\* secondary and the tertiary tier have been tried: whenever the upload has
\* rejected, reading the local resource as a blob included, the log holds a
\* call of tier 2 and a call of tier 3.
C18_FailureOnlyAfterAllTiers ==
  (uploadResult # None /\ uploadResult[1].kind = "rejected")
  => /\ \E i \in 1..Len(calls) : calls[i].tier = 2
     /\ \E i \in 1..Len(calls) : calls[i].tier = 3

\* C18's case: response.blob() threw, and the upload rejected with that error
\* without a call of any tier.
C18_Witness ==
  /\ pc = "done"
  /\ calls # <<>>
  /\ calls[Len(calls)].call = "blob"
  /\ calls[Len(calls)].result.kind = "throw"
  /\ uploadResult = Some(Rejected(ErrorOf("blob", 0)))
  /\ \A i \in 1..Len(calls) : calls[i].tier = 0
  /\ alert = FailTitle(handler)

\* C19: a handler started while isConnected is false shows the offline alert
\* and ends in that step: it has made no call (no permission request, picker,
\* camera, position read or upload call), has no position, no upload result,
\* and has not called onSend.
C19_OfflineOnlyAlerts ==
  [][\A h \in Handlers :
       (Press(h) /\ ~isConnected)
       => /\ alert' = "Offline"
          /\ calls' = <<>>
          /\ position' = None
          /\ uploadResult' = None
          /\ onSendLog' = <<>>
          /\ pc' = "done"]_vars

\* C19's case: the sheet was opened while connected, connectivity was lost, and
\* shareLocation was tapped.
C19_Witness ==
  /\ ~isConnected
  /\ handler = "shareLocation"
  /\ outcome = "offline"
  /\ pc = "done"
  /\ alert = "Offline"
  /\ calls = <<>>

\* C20: a permission request answered with a status other than granted, or a
\* services query answered with false, is the last call the handler makes: the
\* handler has ended, after showing the matching alert in the step of the
\* answer, with no position, no upload result and no call of onSend.
C20_DenialEndsHandler ==
  [][LET refused(log) ==
           {i \in 1..Len(log) :
              \/ log[i].result.kind = "status" /\ log[i].result.status # "granted"
              \/ log[i].result.kind = "enabled" /\ ~log[i].result.enabled}
     IN  /\ \A i \in refused(calls') :
              /\ i = Len(calls')
              /\ pc' = "done"
              /\ position' = None
              /\ uploadResult' = None
              /\ onSendLog' = <<>>
         /\ (refused(calls') # {} /\ refused(calls) = {})
            => alert' = (IF calls'[Len(calls')].result.kind = "status"
                         THEN "Permission required"
                         ELSE "Location services are off")]_vars

\* C20's case: shareLocation was granted the permission and found the location
\* services disabled.
C20_Witness ==
  /\ handler = "shareLocation"
  /\ pc = "done"
  /\ outcome = "servicesOff"
  /\ Len(calls) = 2
  /\ calls[1].result = [kind |-> "status", status |-> "granted"]
  /\ calls[2].call = "hasServicesEnabledAsync"
  /\ calls[2].result = [kind |-> "enabled", enabled |-> FALSE]
  /\ alert = "Location services are off"
  /\ onSendLog = <<>>

\* C22: pickImage and takePhoto have called onSend only if uploadImageAsync
\* resolved, with the URL its last getDownloadURL returned, and then with one
\* message that carries that URL; in the step in which the upload rejects, the
\* handler shows its failure alert, and onSend is not called for a rejected upload.
C22_SendOnlyResolvedUrl ==
  [][/\ (handler' \in {"pickImage", "takePhoto"} /\ onSendLog' # <<>>)
        => /\ calls' # <<>>
           /\ calls'[Len(calls')].call = "getDownloadURL"
           /\ calls'[Len(calls')].result.kind = "url"
           /\ uploadResult' = Some(Resolved(calls'[Len(calls')].result.url))
           /\ onSendLog' = <<ImageMessage(calls'[Len(calls')].result.url)>>
     /\ (uploadResult' # None /\ uploadResult'[1].kind = "rejected")
        => /\ onSendLog' = <<>>
           /\ uploadResult = None => (alert' = FailTitle(handler') /\ pc' = "done")]_vars

\* C22's case: takePhoto's upload failed in the primary tier and resolved in the
\* secondary, and the message sent carries the secondary tier's URL.
C22_Witness ==
  /\ handler = "takePhoto"
  /\ pc = "done"
  /\ \E i \in 1..Len(calls) : calls[i].tier = 1 /\ calls[i].result.kind = "throw"
  /\ calls[Len(calls)].tier = 2
  /\ calls[Len(calls)].call = "getDownloadURL"
  /\ uploadResult = Some(Resolved("https://storage/o/file.jpg?token=b"))
  /\ onSendLog = <<ImageMessage("https://storage/o/file.jpg?token=b")>>

-----------------------------------------------------------------------------
(* Properties of the Chat screen: connectivity changes, races, cleanup *)

\* C12 (as claimed): a change of isConnected while the Chat screen stays mounted
\* creates no subscription, cancels none and starts no cache load.
C12_ConnectivitySampledOnce ==
  [][(phase = "mounted" /\ phase' = "mounted" /\ isConnected' # isConnected)
       => /\ subscribed' = subscribed
          /\ loads' = loads]_vars

\* C12's case: a screen that started offline, whose cache load is still pending,
\* holds a live subscription after connectivity came back.
C12_Witness ==
  /\ phase = "mounted"
  /\ isConnected
  /\ subscribed
  /\ loads > 0

\* C15: onSend called with a message while isConnected is true (and db is there)
\* adds that message to the remote collection and leaves the in-memory list, the
\* cache and the cache writes in flight as they were; and a sent message is in the
\* list only after the subscription has delivered an emission.
C15_OnlineSendLeavesListAlone ==
  [][/\ \A ms \in SendInputs :
         (OnSend(ms) /\ isConnected /\ db /\ ms # <<>>)
         => /\ sent' = Append(sent, ms[1])
            /\ messages' = messages
            /\ cache' = cache
            /\ writes' = writes
     /\ \A i \in 1..Len(messages') :
         (\E d \in SentDocs' : d.id = messages'[i]._id) => emitCount' > 0]_vars

\* C15's case: the image message sent online is in the list, brought by an emission.
C15_Witness ==
  /\ isConnected
  /\ subscribed
  /\ sent = <<SendImage>>
  /\ emitCount > 0
  /\ \E i \in 1..Len(messages) : messages[i]._id = 11
  /\ messages = lastFetched[1]

\* C14 (as claimed): while a live subscription stays active and the list equals
\* the list decoded from its most recent emission, the list keeps equal to the most
\* recent emission: only the subscription callback writes it, and a cache load
\* started earlier does not.
C14_ListOwnedBySubscription ==
  [][(/\ subscribed /\ subscribed'
      /\ lastFetched # None
      /\ messages = lastFetched[1])
       => messages' = lastFetched'[1]]_vars

\* C14's case: a subscription is active and has delivered a message, the cache
\* load of the offline start has finished after it, and the list shows the cached
\* message instead of the emission.
C14_Witness ==
  /\ phase = "mounted"
  /\ subscribed
  /\ emitCount > 0
  /\ loads = 0
  /\ Len(lastFetched[1]) = 1
  /\ messages = <<RestoreEntry(StoredEntry)>>
  /\ messages # lastFetched[1]

\* C16: the effect cleanup cancels the live subscription when one is active (on
\* unmount and when the screen goes offline) and changes nothing else, in
\* particular nothing at all when no subscription was created; while no
\* subscription is active no emission is delivered; and once the screen is gone
\* the list never changes again.
C16_CleanupStopsEmissions ==
  [][/\ (phase = "mounted" /\ phase' = "unmounted")
         => /\ ~subscribed'
            /\ <<messages, cache, writes, loads, alert, lastFetched>>
                 = <<messages', cache', writes', loads', alert', lastFetched'>>
     /\ (phase = "mounted" /\ phase' = "mounted" /\ isConnected /\ ~isConnected')
         => /\ ~subscribed'
            /\ messages' = messages
     /\ ~subscribed => (emitCount' = emitCount /\ lastFetched' = lastFetched)
     /\ phase = "unmounted"
         => /\ phase' = "unmounted"
            /\ ~subscribed'
            /\ messages' = messages]_vars

\* C16's case: a screen that held a subscription and received messages is gone,
\* the subscription with it, while a cache write of its callback is still in flight.
C16_Witness ==
  /\ phase = "unmounted"
  /\ ~subscribed
  /\ emitCount > 0
  /\ messages # <<>>
  /\ messages = lastFetched[1]
  /\ writes # <<>>

\* C21 (as claimed): a message sent with an image URL or a location pair, once
\* delivered back by the subscription, is in the list and in the cache with the
\* same image and location value.
C21_AttachmentRoundTrip ==
  \A k \in 1..Len(sent) :
    (sent[k].image # None \/ sent[k].location # None)
    => /\ \A i \in 1..Len(messages) :
            messages[i]._id = 10 + k
            => /\ {"image", "location"} \subseteq DOMAIN messages[i]
               /\ messages[i].image = sent[k].image
               /\ messages[i].location = sent[k].location
       /\ cache.kind = "array"
          => \A i \in 1..Len(cache.entries) :
               (~IsNullEntry(cache.entries[i]) /\ cache.entries[i]._id = 10 + k)
               => /\ {"image", "location"} \subseteq DOMAIN cache.entries[i]
                  /\ cache.entries[i].image = sent[k].image
                  /\ cache.entries[i].location = sent[k].location

\* C21's case: the image message was sent online, the subscription delivered its
\* document, and the decoded message is in the list and in the cache without
\* an image.
C21_Witness ==
  /\ isConnected
  /\ subscribed
  /\ sent = <<SendImage>>
  /\ \E i \in 1..Len(messages) :
       /\ messages[i]._id = 11
       /\ messages[i].text = ""
       /\ "image" \notin DOMAIN messages[i]
  /\ cache.kind = "array"
  /\ \E i \in 1..Len(cache.entries) :
       /\ ~IsNullEntry(cache.entries[i])
       /\ cache.entries[i]._id = 11
       /\ "image" \notin DOMAIN cache.entries[i]

-----------------------------------------------------------------------------
(* Properties of the Start screen: the two ways into Chat *)

\* C23: signInUser with a name that is not blank.  Pressed while connected it
\* starts a sign-in and does not navigate in that step; a sign-in that returns a
\* uid navigates with that uid as userId, one that throws or returns no user
\* shows an alert and leaves the screen and the route alone.  Pressed while
\* disconnected it starts no sign-in and navigates with an 'offline_' id built
\* from the clock.  Every step that sets the route is one of these two.
C23_SignInPaths ==
  [][/\ \A now \in Nows :
          (SignInUser(now) /\ Trim(name) # <<>>)
          => IF isConnected
             THEN /\ Len(signIn') = Len(signIn) + 1
                  /\ UNCHANGED <<screen, route, alert>>
             ELSE /\ signIn' = signIn
                  /\ screen' = "Chat"
                  /\ route' = Some(Params(OfflineId(now), name, selectedColor))
     /\ \A k \in 1..Len(signIn) : \A r \in SignInResults :
          SignInResult(k, r)
          => IF r.kind = "result" /\ r.uid # None
             THEN /\ screen' = "Chat"
                  /\ route' # None
                  /\ route'[1].userId = UserId(r.uid[1])
             ELSE /\ alert' \in {"Unable to sign in", "Sign-in failed"}
                  /\ UNCHANGED <<screen, route>>
     /\ (route' # None /\ route' # route)
        => \/ /\ route'[1].userId.kind = "uid"
              /\ Len(signIn') = Len(signIn) - 1
           \/ /\ route'[1].userId.kind = "offline"
              /\ ~isConnected
              /\ signIn' = signIn]_vars

\* C23's case: a sign-in started while connected has returned a user with a
\* uid, and Chat was opened with that uid.
C23_Witness ==
  /\ screen = "Chat"
  /\ signIn = <<>>
  /\ route # None
  /\ route[1].userId = UserId("uid-1")
  /\ route[1].name # <<>>

-----------------------------------------------------------------------------
(* Properties of the assembled app *)

\* C13 (as claimed): in the assembled app, whenever the network is reachable the
\* screens see isConnected true, and a mounted Chat holds a live subscription.
C13_ConnectivityReflectsNetwork ==
  reachable => /\ isConnected
               /\ phase = "mounted" => subscribed

\* C13's case: the network is reachable, Start has navigated with an offline
\* user id and Chat shows the cached messages without a subscription.
C13_Witness ==
  /\ reachable
  /\ screen = "Chat"
  /\ route # None
  /\ route[1].userId.kind = "offline"
  /\ phase = "mounted"
  /\ ~subscribed
  /\ messages = <<RestoreEntry(StoredEntry)>>

=============================================================================
